---- MODULE Spec2Model ----
(***************************************************************************)
(* Model of customerorderdetail.py: clean_data (the forward-fill and       *)
(* field-extraction pipeline) and the Deli/FOC split done by main.         *)
(*                                                                         *)
(* A table is columnar, as a pandas DataFrame is:                          *)
(*   [columns |-> sequence of column names,                                *)
(*    index   |-> sequence of row labels (0-based, kept through filters),  *)
(*    dtype   |-> [column name |-> "object", "float64", ...],              *)
(*    data    |-> [column name |-> sequence of cells]]                     *)
(* A text cell is a sequence of one-character strings, or NaN.  The empty  *)
(* string <<>> is a value, not NaN.  A datetime cell is <<y, m, d>> or NaT.*)
(***************************************************************************)
EXTENDS Integers, Sequences, FiniteSets, TLC

VARIABLES
  df,           \* the uploaded table, as read_excel returned it (line 103)
  pc,           \* the statement about to run
  call,         \* 1: main's call of clean_data; 2: the call on its own output
  cleaned_df,   \* clean_data's working copy (line 26)
  final_df,     \* what call 1 returned (line 73; main's cleaned_df, line 110)
  spp_deli_df,  \* line 113
  spp_foc_df,   \* line 114
  rerun_df,     \* what call 2 returned
  error,        \* the exception call 1 or the split raised (line 149)
  rerun_error   \* the exception call 2 raised

vars == <<df, pc, call, cleaned_df, final_df, spp_deli_df, spp_foc_df, rerun_df,
          error, rerun_error>>

\* Largest number of rows of an uploaded table.
MaxRows == 3

----------------------------------------------------------------------------
(* Cells *)

NaN == <<"NaN">>
NaT == <<0, 0, 0>>
EmptyStr == <<>>

isna(v) == v = NaN \/ v = NaT

Digits == {"0", "1", "2", "3", "4", "5", "6", "7", "8", "9"}
Whitespace == {" "}

IsDigit(c) == c \in Digits
IsSpace(c) == c \in Whitespace

DigitVal(c) ==
  CASE c = "0" -> 0 [] c = "1" -> 1 [] c = "2" -> 2 [] c = "3" -> 3
    [] c = "4" -> 4 [] c = "5" -> 5 [] c = "6" -> 6 [] c = "7" -> 7
    [] c = "8" -> 8 [] c = "9" -> 9

\* The character at position i, or "" past either end.
At(s, i) == IF i \in 1..Len(s) THEN s[i] ELSE ""

SetMin(S) == CHOOSE x \in S : \A y \in S : x <= y
SetMax(S) == CHOOSE x \in S : \A y \in S : x >= y

\* First position >= i that holds no digit (Len(s)+1 when the digits run to the end).
DigitsEnd(s, i) == SetMin({p \in i..(Len(s) + 1) : ~IsDigit(At(s, p))})
\* First position >= i that holds no whitespace.
SpacesEnd(s, i) == SetMin({p \in i..(Len(s) + 1) : ~IsSpace(At(s, p))})

----------------------------------------------------------------------------
(* date_pattern = r'\d{2}-\d{2}-\d{2}' and Series.str.contains *)

date_pattern_at(s, i) ==
  /\ IsDigit(At(s, i))     /\ IsDigit(At(s, i + 1)) /\ At(s, i + 2) = "-"
  /\ IsDigit(At(s, i + 3)) /\ IsDigit(At(s, i + 4)) /\ At(s, i + 5) = "-"
  /\ IsDigit(At(s, i + 6)) /\ IsDigit(At(s, i + 7))

\* str.contains(date_pattern, na=False): a regex search anywhere in the cell.
contains_date_pattern(s) ==
  IF s = NaN THEN FALSE ELSE \E i \in 1..Len(s) : date_pattern_at(s, i)

----------------------------------------------------------------------------
(* order_pattern = r"(\d{5,})\s+(\d{1,2}/\d{1,2}/\d{4})" *)

\* \d{1,2}/ at position k: the position after the slash, or 0.
OneOrTwoDigitsSlash(s, k) ==
  IF IsDigit(At(s, k)) /\ IsDigit(At(s, k + 1)) /\ At(s, k + 2) = "/" THEN k + 3
  ELSE IF IsDigit(At(s, k)) /\ At(s, k + 1) = "/" THEN k + 2
  ELSE 0

\* A match of order_pattern starting at i: [from, g1to, g2from, to], or to = 0.
order_pattern_at(s, i) ==
  LET j == DigitsEnd(s, i)
      k == SpacesEnd(s, j)
      p == OneOrTwoDigitsSlash(s, k)
      q == IF p = 0 THEN 0 ELSE OneOrTwoDigitsSlash(s, p)
      ok == /\ j - i >= 5
            /\ k > j
            /\ p # 0
            /\ q # 0
            /\ \A d \in 0..3 : IsDigit(At(s, q + d))
  IN  [from |-> i, g1to |-> j - 1, g2from |-> k, to |-> IF ok THEN q + 3 ELSE 0]

\* re.search from position pos: the leftmost match, or to = 0.
order_pattern_search(s, pos) ==
  LET starts == {i \in pos..Len(s) : order_pattern_at(s, i).to # 0}
  IN  IF starts = {} THEN [from |-> 0, g1to |-> 0, g2from |-> 0, to |-> 0]
      ELSE order_pattern_at(s, SetMin(starts))

\* Series.str.extract(order_pattern): the two groups of the first match.
str_extract(s) ==
  IF s = NaN THEN <<NaN, NaN>>
  ELSE LET m == order_pattern_search(s, 1)
       IN  IF m.to = 0 THEN <<NaN, NaN>>
           ELSE <<SubSeq(s, m.from, m.g1to), SubSeq(s, m.g2from, m.to)>>

RECURSIVE re_sub_from(_, _)
\* re.sub(order_pattern, '', s) from position pos: every non-overlapping match
\* is removed, scanning left to right.
re_sub_from(s, pos) ==
  LET m == order_pattern_search(s, pos)
  IN  IF m.to = 0 THEN SubSeq(s, pos, Len(s))
      ELSE SubSeq(s, pos, m.from - 1) \o re_sub_from(s, m.to + 1)

\* Series.str.replace(order_pattern, '', regex=True)
str_replace(s) == IF s = NaN THEN NaN ELSE re_sub_from(s, 1)

\* Series.str.strip()
str_strip(s) ==
  IF s = NaN THEN NaN
  ELSE LET inked == {i \in 1..Len(s) : ~IsSpace(s[i])}
       IN  IF inked = {} THEN EmptyStr
           ELSE SubSeq(s, SetMin(inked), SetMax(inked))

----------------------------------------------------------------------------
(* pd.to_datetime(..., errors='coerce') on the two date shapes the pipeline
   feeds it, month first; anything else, and any impossible date, is NaT. *)

TwoDigits(s, i) == 10 * DigitVal(s[i]) + DigitVal(s[i + 1])

DaysInMonth(y, m) ==
  IF m \in {4, 6, 9, 11} THEN 30
  ELSE IF m = 2 THEN (IF (y % 4 = 0 /\ y % 100 # 0) \/ y % 400 = 0 THEN 29 ELSE 28)
  ELSE 31

Timestamp(y, m, d) ==
  IF m \in 1..12 /\ d \in 1..DaysInMonth(y, m) THEN <<y, m, d>> ELSE NaT

to_datetime(s) ==
  IF s = NaN THEN NaT
  ELSE IF Len(s) = 8 /\ date_pattern_at(s, 1)
    THEN LET yy == TwoDigits(s, 7)
         IN  Timestamp(IF yy < 69 THEN 2000 + yy ELSE 1900 + yy,
                       TwoDigits(s, 1), TwoDigits(s, 4))
  ELSE LET p == OneOrTwoDigitsSlash(s, 1)
           q == IF p = 0 THEN 0 ELSE OneOrTwoDigitsSlash(s, p)
       IN  IF /\ q # 0
              /\ Len(s) = q + 3
              /\ \A d \in 0..3 : IsDigit(At(s, q + d))
           THEN Timestamp(1000 * DigitVal(s[q]) + 100 * DigitVal(s[q + 1])
                            + TwoDigits(s, q + 2),
                          IF p = 3 THEN DigitVal(s[1]) ELSE TwoDigits(s, 1),
                          IF q - p = 2 THEN DigitVal(s[p]) ELSE TwoDigits(s, p))
           ELSE NaT

----------------------------------------------------------------------------
(* Series and DataFrame operations *)

Positions(col) == 1..Len(col)

\* Series.where(cond), cond a boolean column: the cell where cond holds, NaN
\* elsewhere.
where(col, cond) == [i \in Positions(col) |-> IF cond[i] THEN col[i] ELSE NaN]

\* pd.to_datetime on a column.
to_datetime_column(col) == [i \in Positions(col) |-> to_datetime(col[i])]

RECURSIVE ffill_from(_, _, _)
\* Series.ffill() as a single pass carrying the last value seen.
ffill_from(col, i, last) ==
  IF i > Len(col) THEN <<>>
  ELSE LET v == IF isna(col[i]) THEN last ELSE col[i]
       IN  <<v>> \o ffill_from(col, i + 1, v)


\* ffill(limit=1): only the row right after a value is filled.
ffill_limit1(col) ==
  [i \in Positions(col) |-> IF isna(col[i]) /\ i > 1 THEN col[i - 1] ELSE col[i]]

ffill(col) == ffill_from(col, 1, NaN)

HasColumn(t, c) == c \in DOMAIN t.data

NRows(t) == Len(t.index)

\* cleaned_df[c] = col : replaces column c, or appends it as a new last column.
SetColumn(t, c, col, dt) ==
  [columns |-> IF HasColumn(t, c) THEN t.columns ELSE Append(t.columns, c),
   index   |-> t.index,
   dtype   |-> [x \in DOMAIN t.data \cup {c} |-> IF x = c THEN dt ELSE t.dtype[x]],
   data    |-> [x \in DOMAIN t.data \cup {c} |-> IF x = c THEN col ELSE t.data[x]]]

RECURSIVE KeptFrom(_, _)
\* The positions i..Len(mask) at which the boolean mask holds, in order.
KeptFrom(mask, i) ==
  IF i > Len(mask) THEN <<>>
  ELSE (IF mask[i] THEN <<i>> ELSE <<>>) \o KeptFrom(mask, i + 1)

\* cleaned_df[mask] : the rows at which mask holds, labels and order kept.
Take(t, mask) ==
  LET keep == KeptFrom(mask, 1)
  IN  [columns |-> t.columns,
       index   |-> [k \in 1..Len(keep) |-> t.index[keep[k]]],
       dtype   |-> t.dtype,
       data    |-> [c \in DOMAIN t.data |->
                     [k \in 1..Len(keep) |-> t.data[c][keep[k]]]]]

\* The .str accessor exists on object columns only.
HasStr(t, c) == t.dtype[c] = "object"

----------------------------------------------------------------------------
(* clean_data, statement by statement *)

Item == <<"I", "t", "e", "m">>

\* cleaned_df['Type'] != 'Item'
NotItem(col) == [i \in Positions(col) |-> col[i] # Item]
\* cleaned_df['Type'] == 'Item'
IsItem(col) == [i \in Positions(col) |-> col[i] = Item]

\* Lines 29-31.
SplitType(t) ==
  LET Type == t.data["Type"]
      t1 == SetColumn(t, "Customer_Name", where(Type, NotItem(Type)), t.dtype["Type"])
      t2 == SetColumn(t1, "Type", where(Type, IsItem(Type)), t.dtype["Type"])
  IN  SetColumn(t2, "Customer_Name", ffill(t2.data["Customer_Name"]),
                t.dtype["Type"])

\* str.contains(date_pattern, na=False) on a column.
contains_date(sd) == [i \in Positions(sd) |-> contains_date_pattern(sd[i])]


\* The classification left out: every Shipment Date taken as a CID.
cid_column_unrouted(sd) == sd

\* Line 37.
cid_column(sd) == where(sd, [i \in Positions(sd) |-> ~contains_date(sd)[i]])
\* Line 38.
shipment_date_column(sd) == where(sd, contains_date(sd))

\* Lines 37-42.
SplitShipmentDate(t) ==
  LET sd == t.data["Shipment Date"]
      t1 == SetColumn(t, "CID", cid_column(sd), "object")
      t2 == SetColumn(t1, "Shipment_Date", shipment_date_column(sd), "object")
      t3 == SetColumn(t2, "CID", ffill(t2.data["CID"]), "object")
  IN  SetColumn(t3, "Shipment_Date",
                to_datetime_column(ffill(t3.data["Shipment_Date"])), "datetime64")

\* Capture group g of str.extract on a column.
extract_column(d, g) == [i \in Positions(d) |-> str_extract(d[i])[g]]

\* Lines 46-48.
ExtractOrder(t) ==
  LET d == t.data["Description"]
      t1 == SetColumn(t, "Order_No", extract_column(d, 1), "object")
      t2 == SetColumn(t1, "Order_Date", extract_column(d, 2), "object")
      t3 == SetColumn(t2, "Order_No", ffill(t2.data["Order_No"]), "object")
  IN  SetColumn(t3, "Order_Date",
                to_datetime_column(ffill(t3.data["Order_Date"])), "datetime64")

\* Line 51.
StripDescription(t) ==
  SetColumn(t, "Description",
            [i \in 1..NRows(t) |-> str_strip(str_replace(t.data["Description"][i]))],
            "object")

\* 'Order No.' as a regular expression: the dot matches any character.
order_no_marker_at(s, i) ==
  /\ i + 8 <= Len(s)
  /\ SubSeq(s, i, i + 7) = <<"O", "r", "d", "e", "r", " ", "N", "o">>

\* str.contains('Order No.', na=False)
contains_order_no(s) ==
  IF s = NaN THEN FALSE ELSE \E i \in 1..Len(s) : order_no_marker_at(s, i)


\* A marker pattern that matches nothing: no row is excluded.
DropNoRows(t) == Take(t, [i \in 1..NRows(t) |-> TRUE])

\* Line 54.
DropMarkerRows(t) ==
  Take(t, [i \in 1..NRows(t) |-> ~contains_order_no(t.data["No."][i])])

\* Line 57.
FfillNo(t) == SetColumn(t, "No.", ffill(t.data["No."]), t.dtype["No."])


\* Lines 57 and 54 the other way round.
FillThenExcludeMarker(t) == DropMarkerRows(FfillNo(t))

\* Lines 53-57, in the order the code runs them.
ExcludeMarkerThenFill(t) == FfillNo(DropMarkerRows(t))

\* Line 60: dropna(subset=['Description']) drops NaN, not the empty string.
DropNaDescription(t) ==
  Take(t, [i \in 1..NRows(t) |-> ~isna(t.data["Description"][i])])


\* The raw "Shipment Date" kept by the projection.
columns_with_shipment_date ==
  <<"CID", "Shipment_Date", "Shipment Date", "Customer_Name", "Type", "No.",
    "Order_No", "Order_Date", "Description", "Quantity", "OutstandingQuantity",
    "Quantity on Back Order", "Unit Price Excl. VAT", "Line Discount Amount",
    "Inv. Discount Amount Excl. VAT", "OutstandingOrders">>

\* Lines 63-68.
columns ==
  <<"CID", "Shipment_Date", "Customer_Name", "Type", "No.", "Order_No",
    "Order_Date", "Description", "Quantity", "OutstandingQuantity",
    "Quantity on Back Order", "Unit Price Excl. VAT", "Line Discount Amount",
    "Inv. Discount Amount Excl. VAT", "OutstandingOrders">>

\* Line 70.
available_columns(t) ==
  LET present(c) == HasColumn(t, c) IN SelectSeq(columns, present)

\* Line 71.
Project(t) ==
  LET cols == available_columns(t)
      names == {cols[i] : i \in 1..Len(cols)}
  IN  [columns |-> cols,
       index   |-> t.index,
       dtype   |-> [c \in names |-> t.dtype[c]],
       data    |-> [c \in names |-> t.data[c]]]

NoTable == [columns |-> <<>>, index |-> <<>>, dtype |-> <<>>, data |-> <<>>]

----------------------------------------------------------------------------
(* main: the Deli / FOC split *)

Deli == <<"D", "e", "l", "i">>


\* str.contains('Deli', na=False) in place of str.endswith.
contains_Deli(s) ==
  IF s = NaN THEN FALSE
  ELSE \E i \in 1..Len(s) :
         i + Len(Deli) - 1 <= Len(s) /\ SubSeq(s, i, i + Len(Deli) - 1) = Deli

\* str.endswith('Deli', na=False)
endswith_Deli(s) ==
  IF s = NaN THEN FALSE
  ELSE Len(s) >= Len(Deli) /\ SubSeq(s, Len(s) - Len(Deli) + 1, Len(s)) = Deli

\* Line 113.
deli_mask(t) == [i \in 1..NRows(t) |-> endswith_Deli(t.data["Customer_Name"][i])]

\* The negation taken without na=False: a row with no Customer_Name is left out.
foc_mask_named(t) ==
  [i \in 1..NRows(t) |-> /\ t.data["Customer_Name"][i] # NaN
                         /\ ~endswith_Deli(t.data["Customer_Name"][i])]

\* Line 114.
foc_mask(t) == [i \in 1..NRows(t) |-> ~endswith_Deli(t.data["Customer_Name"][i])]

----------------------------------------------------------------------------
(* Uploaded tables *)

ADeli == <<"A", " ", "D", "e", "l", "i">>
DeliDeli == <<"D", "e", "l", "i", " ", "d", "e", "l", "i">>

C1Id == <<"C", "1">>
C2Id == <<"C", "2">>
ShipDate == <<"0", "1", "-", "0", "2", "-", "2", "3">>
\* A customer id that holds three two-digit groups.
DatedId == <<"C", "-", "1", "0", "-", "2", "0", "-", "3", "0">>

Widget == <<"w">>
OrderHeader ==
  <<"1", "2", "3", "4", "5", " ", "1", "/", "2", "/", "2", "0", "2", "4">>
\* An item text between two order headers.
TwoHeaders ==
  <<"6", "7", "8", "9", "0", " ", "3", "/", "4", "/", "2", "0", "2", "5", " ",
    "w", " ",
    "1", "2", "3", "4", "5", " ", "1", "/", "2", "/", "2", "0", "2", "4">>

OrderNoMarker == <<"O", "r", "d", "e", "r", " ", "N", "o", ".">>
OrderNoColon == <<"O", "r", "d", "e", "r", " ", "N", "o", ":", "9">>
No7 == <<"7">>
No8 == <<"8">>

\* The raw rows a sheet is made of: <<Type, Shipment Date, Description, No.>>.
RawRows ==
  { <<ADeli,    C1Id,     NaN,         NaN>>,            \* customer header
    <<DeliDeli, C2Id,     NaN,         NaN>>,            \* customer header
    <<NaN,      ShipDate, OrderHeader, OrderNoMarker>>,  \* order header
    <<NaN,      DatedId,  OrderHeader, NaN>>,            \* order header, no marker
    <<Item,     NaN,      Widget,      No7>>,            \* item
    <<Item,     NaN,      Widget,      NaN>>,            \* item, No. left empty
    <<Item,     NaN,      TwoHeaders,  No8>>,            \* item text with headers
    <<Item,     NaN,      Widget,      OrderNoColon>>,   \* No. holding the marker text
    <<Item,     C2Id,     Widget,      OrderNoMarker>>,  \* marker on a full row
    <<NaN,      NaN,      NaN,         No7>>,            \* No. alone
    <<Item,     ShipDate, Widget,      No7>>,            \* item carrying a date
    <<DeliDeli, NaN,      Widget,      NaN>>,            \* header carrying a text
    <<ADeli,    C1Id,     Widget,      No8>> }           \* header carrying an item

\* The dtype read_excel gives a column: float64 when every cell is empty.
InferDtype(col) ==
  IF \E i \in Positions(col) : col[i] # NaN THEN "object" ELSE "float64"

\* pd.read_excel on a sheet with the given rows (line 103).
read_excel(rows) ==
  LET n == Len(rows)
      Type == [i \in 1..n |-> rows[i][1]]
      sd == [i \in 1..n |-> rows[i][2]]
      d == [i \in 1..n |-> rows[i][3]]
      no == [i \in 1..n |-> rows[i][4]]
  IN  [columns |-> <<"Type", "Shipment Date", "Description", "No.", "Quantity">>,
       index   |-> [i \in 1..n |-> i - 1],
       dtype   |-> [c \in {"Type", "Shipment Date", "Description", "No.", "Quantity"} |->
                     CASE c = "Type" -> InferDtype(Type)
                       [] c = "Shipment Date" -> InferDtype(sd)
                       [] c = "Description" -> InferDtype(d)
                       [] c = "No." -> InferDtype(no)
                       [] c = "Quantity" -> "int64"],
       data    |-> [c \in {"Type", "Shipment Date", "Description", "No.", "Quantity"} |->
                     CASE c = "Type" -> Type
                       [] c = "Shipment Date" -> sd
                       [] c = "Description" -> d
                       [] c = "No." -> no
                       [] c = "Quantity" -> [i \in 1..n |-> i]]]

Uploads == UNION {[1..n -> RawRows] : n \in 1..MaxRows}

----------------------------------------------------------------------------
(* The program: main runs clean_data on the uploaded table statement by
   statement (call 1) and splits what it returns; clean_data is then applied
   once more, to the table it returned (call 2).  pc names the statement
   about to run. *)

NoError == [raised |-> "", key |-> ""]

Init ==
  /\ df \in {read_excel(rows) : rows \in Uploads}
  /\ pc = "line26"
  /\ call = 1
  /\ cleaned_df = NoTable
  /\ final_df = NoTable
  /\ spp_deli_df = NoTable
  /\ spp_foc_df = NoTable
  /\ rerun_df = NoTable
  /\ error = NoError
  /\ rerun_error = NoError

\* An exception leaves clean_data; in call 1 main's except clause reports it.
Raise(e, k) ==
  /\ pc' = "failed"
  /\ IF call = 1
     THEN error' = [raised |-> e, key |-> k] /\ UNCHANGED rerun_error
     ELSE rerun_error' = [raised |-> e, key |-> k] /\ UNCHANGED error

NoRaise == UNCHANGED <<error, rerun_error>>

\* The argument of the running call of clean_data.
Argument == IF call = 1 THEN df ELSE final_df

\* Lines 26-31: copy the argument, split Type into Customer_Name and Type.
Line26 ==
  /\ pc = "line26"
  /\ IF ~HasColumn(Argument, "Type")
     THEN Raise("KeyError", "Type") /\ UNCHANGED cleaned_df
     ELSE /\ cleaned_df' = SplitType(Argument)
          /\ pc' = "line37"
          /\ NoRaise
  /\ UNCHANGED <<df, call, final_df, spp_deli_df, spp_foc_df, rerun_df>>

\* Lines 33-42.
Line37 ==
  /\ pc = "line37"
  /\ IF ~HasColumn(cleaned_df, "Shipment Date")
     THEN Raise("KeyError", "Shipment Date") /\ UNCHANGED cleaned_df
     ELSE IF ~HasStr(cleaned_df, "Shipment Date")
     THEN Raise("AttributeError", "Shipment Date") /\ UNCHANGED cleaned_df
     ELSE /\ cleaned_df' = SplitShipmentDate(cleaned_df)
          /\ pc' = "line46"
          /\ NoRaise
  /\ UNCHANGED <<df, call, final_df, spp_deli_df, spp_foc_df, rerun_df>>

\* Lines 44-51.
Line46 ==
  /\ pc = "line46"
  /\ IF ~HasColumn(cleaned_df, "Description")
     THEN Raise("KeyError", "Description") /\ UNCHANGED cleaned_df
     ELSE IF ~HasStr(cleaned_df, "Description")
     THEN Raise("AttributeError", "Description") /\ UNCHANGED cleaned_df
     ELSE /\ cleaned_df' = StripDescription(ExtractOrder(cleaned_df))
          /\ pc' = "line54"
          /\ NoRaise
  /\ UNCHANGED <<df, call, final_df, spp_deli_df, spp_foc_df, rerun_df>>

\* Lines 53-57.
Line54 ==
  /\ pc = "line54"
  /\ IF ~HasColumn(cleaned_df, "No.")
     THEN Raise("KeyError", "No.") /\ UNCHANGED cleaned_df
     ELSE IF ~HasStr(cleaned_df, "No.")
     THEN Raise("AttributeError", "No.") /\ UNCHANGED cleaned_df
     ELSE /\ cleaned_df' = ExcludeMarkerThenFill(cleaned_df)
          /\ pc' = "line60"
          /\ NoRaise
  /\ UNCHANGED <<df, call, final_df, spp_deli_df, spp_foc_df, rerun_df>>

\* Lines 59-73: clean_data returns.
Line60 ==
  /\ pc = "line60"
  /\ IF call = 1
     THEN /\ final_df' = Project(DropNaDescription(cleaned_df))
          /\ pc' = "line113"
          /\ UNCHANGED rerun_df
     ELSE /\ rerun_df' = Project(DropNaDescription(cleaned_df))
          /\ pc' = "returned"
          /\ UNCHANGED final_df
  /\ NoRaise
  /\ UNCHANGED <<df, call, cleaned_df, spp_deli_df, spp_foc_df>>

\* main, lines 112-114.
Line113 ==
  /\ pc = "line113"
  /\ IF ~HasStr(final_df, "Customer_Name")
     THEN Raise("AttributeError", "Customer_Name")
          /\ UNCHANGED <<spp_deli_df, spp_foc_df>>
     ELSE /\ spp_deli_df' = Take(final_df, deli_mask(final_df))
          /\ spp_foc_df' = Take(final_df, foc_mask(final_df))
          /\ pc' = "done"
          /\ NoRaise
  /\ UNCHANGED <<df, call, cleaned_df, final_df, rerun_df>>

\* clean_data called again, on the table the first call returned.
Rerun ==
  /\ call = 1
  /\ pc \in {"done", "failed"}
  /\ final_df # NoTable
  /\ call' = 2
  /\ pc' = "line26"
  /\ UNCHANGED <<df, cleaned_df, final_df, spp_deli_df, spp_foc_df, rerun_df,
                 error, rerun_error>>

Next ==
  \/ Line26
  \/ Line37
  \/ Line46
  \/ Line54
  \/ Line60
  \/ Line113
  \/ Rerun

Spec == Init /\ [][Next]_vars

----------------------------------------------------------------------------
(* What the claims speak of *)

\* Call 1 of clean_data has just returned final_df, which no later step changes.
Returned == call = 1 /\ pc = "line113"

OutRows == 1..NRows(final_df)
\* The position in the uploaded table of output row k.
Orig(k) == final_df.index[k] + 1
Out(c, k) == final_df.data[c][k]
Raw(c, j) == df.data[c][j]
InRows == 1..NRows(df)

\* The value of the nearest row at or before position p whose cell in col is
\* not empty; NaN when there is none.
NearestAnchor(col, p) ==
  LET S == {j \in 1..p : col[j] # NaN}
  IN  IF S = {} THEN NaN ELSE col[SetMax(S)]

\* The columns under propagation, before they are filled.
CustomerNameAnchors ==
  [j \in InRows |-> IF Raw("Type", j) = Item THEN NaN ELSE Raw("Type", j)]
CIDAnchors ==
  [j \in InRows |-> IF contains_date_pattern(Raw("Shipment Date", j)) THEN NaN
                    ELSE Raw("Shipment Date", j)]
ShipmentDateAnchors ==
  [j \in InRows |-> IF contains_date_pattern(Raw("Shipment Date", j))
                    THEN Raw("Shipment Date", j) ELSE NaN]
OrderNoAnchors == [j \in InRows |-> str_extract(Raw("Description", j))[1]]
OrderDateAnchors == [j \in InRows |-> str_extract(Raw("Description", j))[2]]
NoAnchors == [j \in InRows |-> Raw("No.", j)]
\* No. of the rows the marker exclusion keeps.
KeptNoAnchors ==
  [j \in InRows |-> IF contains_order_no(Raw("No.", j)) THEN NaN ELSE Raw("No.", j)]
\* No. of the rows whose No. is not the marker itself.
NonMarkerNoAnchors ==
  [j \in InRows |-> IF Raw("No.", j) = OrderNoMarker THEN NaN ELSE Raw("No.", j)]

\* The five columns filled before any row is dropped.
FilledBeforeFilters(k) ==
  /\ Out("Customer_Name", k) = NearestAnchor(CustomerNameAnchors, Orig(k))
  /\ Out("CID", k) = NearestAnchor(CIDAnchors, Orig(k))
  /\ Out("Shipment_Date", k) = to_datetime(NearestAnchor(ShipmentDateAnchors, Orig(k)))
  /\ Out("Order_No", k) = NearestAnchor(OrderNoAnchors, Orig(k))
  /\ Out("Order_Date", k) = to_datetime(NearestAnchor(OrderDateAnchors, Orig(k)))

\* The uploaded rows that are in the output.
OutputPositions == {Orig(k) : k \in OutRows}

----------------------------------------------------------------------------
(* C1: no row whose original No. is the marker "Order No." is in the output
   of clean_data, whatever its other cells hold. *)
C1_MarkerRowsExcluded ==
  Returned => \A k \in OutRows : Raw("No.", Orig(k)) # OrderNoMarker

\* A marker row that has a Description went through clean_data.
C1_Witness ==
  /\ Returned
  /\ \E j \in InRows : /\ Raw("No.", j) = OrderNoMarker
                       /\ Raw("Description", j) # NaN
                       /\ Raw("Type", j) = Item

(* C2, as stated: in every output row each propagated column, No. included,
   holds the value of the nearest preceding row of the uploaded table whose
   cell in that column was not empty (parsed, for the two dates). *)
C2_Original ==
  Returned =>
    \A k \in OutRows :
      /\ FilledBeforeFilters(k)
      /\ Out("No.", k) = NearestAnchor(NoAnchors, Orig(k))

(* C2, amended: as stated for Customer_Name, CID, Shipment_Date, Order_No and
   Order_Date; No. holds the value of the nearest preceding row that the
   marker exclusion kept and whose No. was not empty. *)
C2_ForwardFill ==
  Returned =>
    \A k \in OutRows :
      /\ FilledBeforeFilters(k)
      /\ Out("No.", k) = NearestAnchor(KeptNoAnchors, Orig(k))

\* An output row is filled, in two columns, from the nearer of two anchors,
\* and another has no anchor at all.
C2_Witness ==
  /\ Returned
  /\ \E k \in OutRows :
       /\ Orig(k) = 3
       /\ Raw("Type", 3) = Item /\ Raw("Type", 2) # Raw("Type", 1)
       /\ Raw("Type", 2) \notin {NaN, Item} /\ Raw("Type", 1) \notin {NaN, Item}
       /\ Out("Customer_Name", k) = Raw("Type", 2)
       /\ Raw("Shipment Date", 3) = NaN
       /\ Raw("Shipment Date", 2) # Raw("Shipment Date", 1)
       /\ Out("CID", k) = Raw("Shipment Date", 2)
       /\ Out("Order_No", k) = NaN

(* C3, as stated: every output row has a CID, a Customer_Name and an
   Order_No. *)
C3_Original ==
  Returned =>
    \A k \in OutRows :
      /\ Out("CID", k) # NaN
      /\ Out("Customer_Name", k) # NaN
      /\ Out("Order_No", k) # NaN

(* C3, amended: an output row has a CID, a Customer_Name or an Order_No
   exactly when a row at or before it in the uploaded table supplies one; a
   row is in the output exactly when its Description is present and its No.
   does not hold the marker, whether or not a group header precedes it. *)
C3_AnchoredOrEmpty ==
  Returned =>
    /\ \A k \in OutRows :
         /\ Out("CID", k) # NaN <=> \E j \in 1..Orig(k) : CIDAnchors[j] # NaN
         /\ Out("Customer_Name", k) # NaN
              <=> \E j \in 1..Orig(k) : CustomerNameAnchors[j] # NaN
         /\ Out("Order_No", k) # NaN <=> \E j \in 1..Orig(k) : OrderNoAnchors[j] # NaN
    /\ OutputPositions =
         {j \in InRows : /\ Raw("Description", j) # NaN
                         /\ ~contains_order_no(Raw("No.", j))}

\* An item row ahead of every group header is in the output, with no CID, no
\* Customer_Name and no Order_No; a later row has all three.
C3_Witness ==
  /\ Returned
  /\ \E k \in OutRows :
       /\ Orig(k) = 1
       /\ Out("CID", k) = NaN
       /\ Out("Customer_Name", k) = NaN
       /\ Out("Order_No", k) = NaN
  /\ \E k \in OutRows :
       /\ Out("CID", k) # NaN
       /\ Out("Customer_Name", k) # NaN
       /\ Out("Order_No", k) # NaN

(* C4: no output row has an empty Description, absent or the empty string
   that is left when the order header is all the text there was. *)
C4_NoEmptyDescription ==
  Returned => \A k \in OutRows : Out("Description", k) \notin {NaN, EmptyStr}

(* C5: the Deli and the FOC subsets are disjoint and together are the cleaned
   table: every cleaned row, cell for cell, is in exactly one of them. *)
C5_Partition ==
  pc = "done" =>
    LET D == {spp_deli_df.index[k] : k \in 1..NRows(spp_deli_df)}
        F == {spp_foc_df.index[k] : k \in 1..NRows(spp_foc_df)}
        Row(t, k) == [c \in DOMAIN t.data |-> t.data[c][k]]
    IN  /\ D \cap F = {}
        /\ D \cup F = {final_df.index[k] : k \in OutRows}
        /\ NRows(spp_deli_df) + NRows(spp_foc_df) = NRows(final_df)
        /\ \A k \in OutRows :
             \/ \E d \in 1..NRows(spp_deli_df) :
                  /\ spp_deli_df.index[d] = final_df.index[k]
                  /\ Row(spp_deli_df, d) = Row(final_df, k)
             \/ \E f \in 1..NRows(spp_foc_df) :
                  /\ spp_foc_df.index[f] = final_df.index[k]
                  /\ Row(spp_foc_df, f) = Row(final_df, k)

\* Both subsets hold rows, and a row with no Customer_Name was split.
C5_Witness ==
  /\ pc = "done"
  /\ NRows(spp_deli_df) > 0
  /\ NRows(spp_foc_df) > 0
  /\ \E k \in OutRows : Out("Customer_Name", k) = NaN

\* s is some text followed by the four characters D, e, l, i.
EndsInDeli(s) ==
  /\ s # NaN
  /\ \E n \in 0..Len(s) : s = SubSeq(s, 1, n) \o <<"D", "e", "l", "i">>

(* C6: a cleaned row is in the Deli subset exactly when its Customer_Name
   ends, case-sensitively, in "Deli"; a row with no Customer_Name, or with
   "Deli" only before the end, is in the FOC subset. *)
C6_SuffixRule ==
  pc = "done" =>
    \A k \in OutRows :
      LET inDeli == \E d \in 1..NRows(spp_deli_df) :
                      spp_deli_df.index[d] = final_df.index[k]
          inFoc == \E f \in 1..NRows(spp_foc_df) :
                     spp_foc_df.index[f] = final_df.index[k]
      IN  /\ inDeli <=> EndsInDeli(Out("Customer_Name", k))
          /\ inFoc <=> ~EndsInDeli(Out("Customer_Name", k))

\* The split saw a name ending in "Deli", a name holding "Deli" before its
\* end, and a row with no name.
C6_Witness ==
  /\ pc = "done"
  /\ \E k \in OutRows : Out("Customer_Name", k) = ADeli
  /\ \E k \in OutRows : Out("Customer_Name", k) = DeliDeli
  /\ \E k \in OutRows : Out("Customer_Name", k) = NaN

(* C7, as stated: clean_data run again on the table it returned returns the
   same rows with the same cells. *)
C7_Original ==
  (call = 2 /\ pc \in {"failed", "returned"}) =>
    /\ rerun_error = NoError
    /\ rerun_df = final_df

(* C7, amended: clean_data is not idempotent on its own output.  The table it
   returns has no "Shipment Date" column, so a second run raises KeyError at
   its first read of that column (line 37) and returns no table. *)
C7_RerunRaisesKeyError ==
  (call = 2 /\ pc \notin {"line26", "line37"}) =>
    /\ pc = "failed"
    /\ rerun_error = [raised |-> "KeyError", key |-> "Shipment Date"]
    /\ rerun_df = NoTable

\* The second run, on a table that holds rows, has ended.
C7_Witness ==
  /\ call = 2
  /\ pc = "failed"
  /\ NRows(final_df) > 0

\* s is exactly three two-digit groups separated by hyphens.
ExactDate(s) == s # NaN /\ Len(s) = 8 /\ date_pattern_at(s, 1)

(* C8: each non-empty Shipment Date is routed to one of the two derived
   columns, to Shipment_Date when it is exactly DD-MM-YY and to CID when it is
   anything else, a longer text holding such a group included.  Stated on the
   columns as lines 37-42 leave them, filled and parsed. *)
C8_ExactDateRouting ==
  (call = 1 /\ pc = "line46") =>
    LET ClaimedCID ==
          [j \in InRows |-> IF ExactDate(Raw("Shipment Date", j)) THEN NaN
                            ELSE Raw("Shipment Date", j)]
        ClaimedDate ==
          [j \in InRows |-> IF ExactDate(Raw("Shipment Date", j))
                            THEN Raw("Shipment Date", j) ELSE NaN]
    IN  \A j \in InRows :
          /\ cleaned_df.data["CID"][j] = NearestAnchor(ClaimedCID, j)
          /\ cleaned_df.data["Shipment_Date"][j]
               = to_datetime(NearestAnchor(ClaimedDate, j))

\* s with its first order header, and nothing else, taken out.
WithoutFirstMatch(s) ==
  LET m == order_pattern_search(s, 1)
  IN  IF m.to = 0 THEN s
      ELSE SubSeq(s, 1, m.from - 1) \o SubSeq(s, m.to + 1, Len(s))

(* C9: of a Description holding order headers only the first is consumed:
   Order_No and Order_Date come from it and it alone is removed from the
   text, a later header staying where it is. *)
C9_FirstMatchOnly ==
  (call = 1 /\ pc = "line54") =>
    \A j \in InRows :
      LET d == Raw("Description", j)
          m == order_pattern_search(d, 1)
      IN  (d # NaN /\ m.to # 0) =>
            /\ cleaned_df.data["Order_No"][j] = SubSeq(d, m.from, m.g1to)
            /\ cleaned_df.data["Order_Date"][j]
                 = to_datetime(SubSeq(d, m.g2from, m.to))
            /\ cleaned_df.data["Description"][j] = str_strip(WithoutFirstMatch(d))

(* C10, as stated: no output row has No. "Order No.", and an output row whose
   own No. was empty has the No. of the nearest preceding row whose No. was
   neither empty nor the marker "Order No.". *)
C10_Original ==
  Returned =>
    \A k \in OutRows :
      /\ Out("No.", k) # OrderNoMarker
      /\ Raw("No.", Orig(k)) = NaN
           => Out("No.", k) = NearestAnchor(NonMarkerNoAnchors, Orig(k))

(* C10, amended: the marker rows are excluded before No. is filled, so the
   marker never enters the fill: no output row has a No. holding the marker,
   an output row whose own No. was empty has the No. of the nearest preceding
   row that the exclusion kept and whose No. was not empty, and no row is
   lost to a marker filled into it. *)
C10_MarkerExcludedBeforeFill ==
  Returned =>
    /\ \A k \in OutRows :
         /\ Out("No.", k) # OrderNoMarker
         /\ ~contains_order_no(Out("No.", k))
         /\ Raw("No.", Orig(k)) = NaN
              => Out("No.", k) = NearestAnchor(KeptNoAnchors, Orig(k))
    /\ \A j \in InRows :
         (Raw("No.", j) = NaN /\ Raw("Description", j) # NaN)
           => j \in OutputPositions

\* A row with an empty No. follows a marker row that follows a numbered row,
\* and is in the output with the number.
C10_Witness ==
  /\ Returned
  /\ \E k \in OutRows :
       /\ Orig(k) = 3
       /\ Raw("No.", 3) = NaN
       /\ Raw("No.", 2) = OrderNoMarker
       /\ Raw("No.", 1) = No8
       /\ Out("No.", k) = No8

====
